---- MODULE Spec2Model ----
(***************************************************************************)
(* raft::range, raft::sum and raft::mult of packages/utility.hpp.          *)
(*                                                                         *)
(* range( a, b, delta ) is modelled statement by statement: the            *)
(* computation of cap, the allocation of out( cap ), and one step per      *)
(* iteration of the fill loop.  The common type of the bounds is either a  *)
(* signed integer type (values far from its limits, so no signed overflow  *)
(* happens) or an unsigned integer type of Width bits whose arithmetic is  *)
(* done modulo 2^Width.  An assignment out[ index ] with index >= cap is   *)
(* undefined behaviour: the build either absorbs the write outside the     *)
(* vector and goes on, or the process faults.                              *)
(*                                                                         *)
(* sum< R >( ports... ) and mult< R >( ports... ) are modelled as the      *)
(* recursion of sum_helper / mult_helper: one step per pop, the empty      *)
(* specialisation, and one step per return of a helper frame.              *)
(***************************************************************************)
EXTENDS Integers, Sequences, FiniteSets

\* ---------------------------------------------------------------- bounds
\* a port holds at most MaxLen values before the first call
MaxLen == 2
\* a call has at most MaxArgs arguments
MaxArgs == 3
\* at most MaxCalls calls are made on the same arguments
MaxCalls == 2
\* width of the unsigned common type
Width == 3
\* signed bounds a, b are drawn from -MaxVal .. MaxVal
MaxVal == 10
\* the step delta is drawn from 1 .. MaxDelta
MaxDelta == 3

Mod == 2 ^ Width
\* index is an int that only ever grows; every index above any cap the
\* model can compute is outside the vector, so the model stops counting there
MaxIndex == Mod + 2 * MaxVal + 2

VARIABLES
  t,        \* common_t< A, B >: "signed" or "unsigned"
  a, b, delta,   \* the arguments of range
  pc,       \* "call", "loop", "done" (returned), "fault"; "idle": no call
  cap,      \* the local cap
  out,      \* the vector out( cap ), as a sequence (out[ k ] is at k + 1)
  i,        \* the loop variable
  index,    \* the local index
  lastIdx,  \* the index of the latest assignment out[ index ] = i, or -1
  wrapped,  \* some unsigned operation of this call wrapped modulo 2^Width
  op,       \* the fold that runs or ran last: "sum" or "mult" ("none" before)
  ports,    \* the content of every port, a FIFO (head first)
  ports0,   \* the content of every port before the first call
  args,     \* the argument list ports... of the call, a sequence of ports
  fpc,      \* "idle", "helper" (descending the recursion), "unwind"; "off"
  depth,    \* the helper frame that runs: the depth-th instantiation
  vals,     \* vals[ d ] is the local val of the d-th helper frame
  acc,      \* the value returned by the callee of the frame that runs
  popLog,   \* the argument positions popped by the call, in order
  pre,      \* the content of every port when the call began
  results   \* the calls made so far: the fold called and the value returned

rvars == << t, a, b, delta, pc, cap, out, i, index, lastIdx, wrapped >>

fvars == << op, ports, ports0, args, fpc, depth, vals, acc, popLog, pre, results >>

vars == << rvars, fvars >>

\* ------------------------------------------------------ range: arithmetic
\* a value of the common type: unsigned arithmetic is modulo 2^Width
Wrap(ty, x) == IF ty = "unsigned" THEN x % Mod ELSE x

Overflows(ty, x) == ty = "unsigned" /\ (x < 0 \/ x >= Mod)

Zeros(n) == [k \in 1 .. n |-> 0]

\* mutant of AscCap: the step is left out of the numerator
AscCapNoStep(ty, x, y, d) == Wrap(ty, y - x) \div d

\* line 65: (b - a + delta) / delta
AscCap(ty, x, y, d) == Wrap(ty, Wrap(ty, y - x) + d) \div d

\* line 77: (a - b + delta) / delta
DescCap(ty, x, y, d) == Wrap(ty, Wrap(ty, x - y) + d) \div d

\* line 69: std::islessequal( i, b + delta )
AscCond(ty, iv, y, d) == iv <= Wrap(ty, y + d)

\* line 81: std::isgreaterequal( i, b - delta )
DescCond(ty, iv, y, d) == iv >= Wrap(ty, y - d)

\* line 69: i += delta
AscStep(ty, iv, d) == Wrap(ty, iv + d)

\* mutant of DescStep: the loop steps by one, whatever delta is
DescStepByOne(ty, iv, d) == Wrap(ty, iv - 1)

\* line 81: i -= delta
DescStep(ty, iv, d) == Wrap(ty, iv - d)

\* line 63: the branch taken
Ascending == a < b

Cap == IF Ascending THEN AscCap(t, a, b, delta) ELSE DescCap(t, a, b, delta)

Cond == IF Ascending THEN AscCond(t, i, b, delta) ELSE DescCond(t, i, b, delta)

Step == IF Ascending THEN AscStep(t, i, delta) ELSE DescStep(t, i, delta)

\* whether computing cap and the loop bound wraps
CallWraps ==
  IF Ascending
  THEN Overflows(t, b - a) \/ Overflows(t, Wrap(t, b - a) + delta)
       \/ Overflows(t, b + delta)
  ELSE Overflows(t, a - b) \/ Overflows(t, Wrap(t, a - b) + delta)
       \/ Overflows(t, b - delta)

StepWraps == IF Ascending THEN Overflows(t, i + delta) ELSE Overflows(t, i - delta)

Bounds(ty) == IF ty = "unsigned" THEN 0 .. (Mod - 1) ELSE (-MaxVal) .. MaxVal

\* ------------------------------------------------------------ fold: parts
Ports == {"p1", "p2"}

\* the values a port may hold before the first call
Elems == {0, 3, 4}

SeqsUpTo(S, n) == UNION {[1 .. k -> S] : k \in 0 .. n}

\* mutant of Identity: both empty specialisations return 0
IdentityZero(o) == 0

\* lines 95 and 132: static_cast< RETTYPE >( 0 ) and static_cast< RETTYPE >( 1 )
Identity(o) == IF o = "sum" THEN 0 ELSE 1

\* mutant of Combine: the value returned by the rest of the pack is dropped
CombineDropRest(o, val, rest) == val

\* mutant of Combine: sum subtracts
CombineMinus(o, val, rest) == IF o = "sum" THEN val - rest ELSE val * rest

\* lines 107 and 144: val + sum_helper<...>::sum( ports... ) and
\* val * mult_helper<...>::mult( ports... )
Combine(o, val, rest) == IF o = "sum" THEN val + rest ELSE val * rest

\* mutant of PackHead: a frame pops the last port of the whole pack
PackLast(as, d) == Len(as)

\* mutant of PackHead: the frames take the pack from its end
PackFromEnd(as, d) == Len(as) - d + 1

\* lines 102 and 139: the d-th helper frame gets the pack without its first
\* d - 1 ports, and its port is the first of those: argument position d
PackHead(as, d) == d

\* port.pop( val ): the head of the FIFO is moved into val
PopValue(q) == Head(q)

PopRest(q) == Tail(q)

\* sum_helper / mult_helper as a function of the ports' content and the
\* pack as, from frame d on: the value returned and the ports left behind
RECURSIVE helper(_, _, _, _)
helper(o, ps, as, d) ==
  IF d > Len(as)
  THEN [ret |-> Identity(o), ports |-> ps]
  ELSE LET p == as[PackHead(as, d)]
           r == helper(o, [ps EXCEPT ![p] = PopRest(@)], as, d + 1)
       IN  [ret |-> Combine(o, PopValue(ps[p]), r.ret), ports |-> r.ports]

RangeIdle ==
  /\ t = "signed" /\ a = 0 /\ b = 0 /\ delta = 1 /\ pc = "idle"
  /\ cap = 0 /\ out = << >> /\ i = 0 /\ index = 0 /\ lastIdx = -1
  /\ wrapped = FALSE

FoldIdle ==
  /\ op = "none" /\ ports = [p \in Ports |-> << >>] /\ ports0 = ports
  /\ args = << >> /\ fpc = "off" /\ depth = 0 /\ vals = << >> /\ acc = 0
  /\ popLog = << >> /\ pre = ports /\ results = << >>

\* --------------------------------------------------------- range: actions
RangeInit ==
  /\ t \in {"signed", "unsigned"}
  /\ a \in Bounds(t)
  /\ b \in Bounds(t)
  /\ delta \in 1 .. MaxDelta
  /\ pc = "call"
  /\ cap = 0
  /\ out = << >>
  /\ i = 0
  /\ index = 0
  /\ lastIdx = -1
  /\ wrapped = FALSE
  /\ FoldIdle

\* lines 65-68 and 77-80: cap, out( cap ), index( 0 ), i( a )
RangeCall ==
  /\ pc = "call"
  /\ cap' = Cap
  /\ out' = Zeros(Cap)
  /\ index' = 0
  /\ i' = a
  /\ wrapped' = CallWraps
  /\ pc' = "loop"
  /\ UNCHANGED << t, a, b, delta, lastIdx, fvars >>

\* lines 69-72 and 81-84: one iteration, out[ index ] = i; i += delta, index++
\* (an assignment past the end is absorbed outside the vector)
LoopWrite ==
  /\ pc = "loop"
  /\ Cond
  /\ out' = IF index < cap THEN [out EXCEPT ![index + 1] = i] ELSE out
  /\ lastIdx' = index
  /\ i' = Step
  /\ wrapped' = (wrapped \/ StepWraps)
  /\ index' = IF index < MaxIndex THEN index + 1 ELSE index
  /\ UNCHANGED << t, a, b, delta, pc, cap, fvars >>

\* lines 71 and 83: an assignment past the end of the vector faults
LoopFault ==
  /\ pc = "loop"
  /\ Cond
  /\ index >= cap
  /\ lastIdx' = index
  /\ pc' = "fault"
  /\ UNCHANGED << t, a, b, delta, cap, out, i, index, wrapped, fvars >>

\* lines 73 and 85: the loop condition is false, out is returned
RangeReturn ==
  /\ pc = "loop"
  /\ ~Cond
  /\ pc' = "done"
  /\ UNCHANGED << t, a, b, delta, cap, out, i, index, lastIdx, wrapped, fvars >>

RangeNext == RangeCall \/ LoopWrite \/ LoopFault \/ RangeReturn

RangeSpec == RangeInit /\ [][RangeNext]_vars

\* the caller's thread keeps running: a step that can be taken is taken
RangeFairSpec == RangeSpec /\ WF_vars(RangeNext)

\* ---------------------------------------------------------- range: claims
\* the inclusive descending sequence x, x - d, ... down to the last value >= y
DescSeq(x, y, d) == [k \in 1 .. ((x - y) \div d + 1) |-> x - (k - 1) * d]

\* C1: a call with a < b and no wrapped arithmetic that returns, returns
\* floor((b-a)/delta)+1 elements, the first is a, each exceeds its
\* predecessor by delta, and the last is <= b.
RangeAscendingInclusive ==
  (pc = "done" /\ a < b /\ ~wrapped) =>
    /\ Len(out) = (b - a) \div delta + 1
    /\ out[1] = a
    /\ \A k \in 2 .. Len(out) : out[k] = out[k - 1] + delta
    /\ out[Len(out)] <= b

\* range( 0, 10, 2 ) has returned [0,2,4,6,8,10]
RangeAscendingWitness ==
  /\ pc = "done" /\ t = "signed" /\ a = 0 /\ b = 10 /\ delta = 2
  /\ out = << 0, 2, 4, 6, 8, 10 >>

\* C2: a call with signed a >= b that returns, returns floor((a-b)/delta)+1
\* elements, the first is a, each is smaller than its predecessor by delta,
\* and the last is >= b.
RangeDescendingInclusive ==
  (pc = "done" /\ t = "signed" /\ a >= b) =>
    /\ Len(out) = (a - b) \div delta + 1
    /\ out[1] = a
    /\ \A k \in 2 .. Len(out) : out[k] = out[k - 1] - delta
    /\ out[Len(out)] >= b

\* range( 5, 1 ) has returned [5,4,3,2,1]
RangeDescendingWitness ==
  /\ pc = "done" /\ t = "signed" /\ a = 5 /\ b = 1 /\ delta = 1
  /\ out = << 5, 4, 3, 2, 1 >>

\* C7: every call of range leaves its fill loop after finitely many
\* iterations (it returns, or an out-of-bounds assignment stops it).
RangeLoopTerminates == <>(pc \in {"done", "fault"})

\* C8: every index at which out[ index ] is assigned is < cap, where cap
\* is (b - a + delta) / delta or (a - b + delta) / delta: the calls in which
\* no arithmetic wraps, so that the code's cap is that quotient.
WritesInsideVector == ~wrapped => lastIdx < cap

\* C10: a call on unsigned bounds with a >= b and delta > b that returns,
\* returns the descending inclusive sequence a, a - delta, ...
UnsignedDescendingInclusive ==
  (pc = "done" /\ t = "unsigned" /\ a >= b /\ delta > b) =>
    out = DescSeq(a, b, delta)

\* ---------------------------------------------------------- fold: actions
FoldInit ==
  /\ op = "none"
  /\ ports \in [Ports -> SeqsUpTo(Elems, MaxLen)]
  /\ ports0 = ports
  /\ pre = ports
  /\ args \in SeqsUpTo(Ports, MaxArgs)
  /\ fpc = "idle"
  /\ depth = 0
  /\ vals = << >>
  /\ acc = 0
  /\ popLog = << >>
  /\ results = << >>
  /\ RangeIdle

\* lines 119-122 and 156-159: sum( ports... ) / mult( ports... ) calls the
\* first helper frame with the whole pack
FoldCall ==
  /\ fpc = "idle"
  /\ Len(results) < MaxCalls
  /\ op' \in {"sum", "mult"}
  /\ fpc' = "helper"
  /\ depth' = 1
  /\ vals' = << >>
  /\ popLog' = << >>
  /\ pre' = ports
  /\ UNCHANGED << ports, ports0, args, acc, results, rvars >>

\* lines 104-105 and 141-142: RETTYPE val; port.pop( val ); then the call of
\* the next frame on the rest of the pack (pop waits while the port is empty)
HelperPop ==
  /\ fpc = "helper"
  /\ depth <= Len(args)
  /\ LET p == args[PackHead(args, depth)]
     IN  /\ ports[p] # << >>
         /\ vals' = Append(vals, PopValue(ports[p]))
         /\ ports' = [ports EXCEPT ![p] = PopRest(@)]
  /\ popLog' = Append(popLog, PackHead(args, depth))
  /\ depth' = depth + 1
  /\ UNCHANGED << op, ports0, args, fpc, acc, pre, results, rvars >>

\* lines 93-96 and 130-133: the empty pack returns the identity
HelperBase ==
  /\ fpc = "helper"
  /\ depth = Len(args) + 1
  /\ acc' = Identity(op)
  /\ fpc' = "unwind"
  /\ depth' = depth - 1
  /\ UNCHANGED << op, ports, ports0, args, vals, popLog, pre, results, rvars >>

\* lines 106-108 and 143-145: a frame returns val combined with what its
\* callee returned
HelperReturn ==
  /\ fpc = "unwind"
  /\ depth >= 1
  /\ acc' = Combine(op, vals[depth], acc)
  /\ depth' = depth - 1
  /\ UNCHANGED << op, ports, ports0, args, fpc, vals, popLog, pre, results, rvars >>

\* lines 121 and 158: sum / mult returns what the first frame returned
FoldReturn ==
  /\ fpc = "unwind"
  /\ depth = 0
  /\ results' = Append(results, [op |-> op, ret |-> acc])
  /\ fpc' = "idle"
  /\ UNCHANGED << op, ports, ports0, args, depth, vals, acc, popLog, pre, rvars >>

FoldNext == FoldCall \/ HelperPop \/ HelperBase \/ HelperReturn \/ FoldReturn

FoldSpec == FoldInit /\ [][FoldNext]_vars

\* ----------------------------------------------------------- fold: claims
\* v1 + (v2 + (... + (vn + 0))) and v1 * (v2 * (... * (vn * 1)))
RECURSIVE RightFold(_, _)
RightFold(o, vs) ==
  IF vs = << >>
  THEN (IF o = "sum" THEN 0 ELSE 1)
  ELSE IF o = "sum" THEN Head(vs) + RightFold(o, Tail(vs))
                    ELSE Head(vs) * RightFold(o, Tail(vs))

Distinct(as) == \A j, k \in 1 .. Len(as) : j # k => as[j] # as[k]

Returned == fpc = "idle" /\ results # << >>

Last == results[Len(results)]

\* the rearrangements of the argument list as
Perms(as) ==
  {[k \in 1 .. Len(as) |-> as[f[k]]] :
     f \in {g \in [1 .. Len(as) -> 1 .. Len(as)] :
              \A j, k \in 1 .. Len(as) : j # k => g[j] # g[k]}}

PopsInArgumentOrder ==
  /\ Len(popLog) <= Len(args)
  /\ \A k \in 1 .. Len(popLog) : popLog[k] = k
  /\ (fpc = "unwind" \/ Returned) =>
       /\ Len(popLog) = Len(args)
       /\ \A p \in Ports :
            Len(pre[p]) - Len(ports[p]) =
              Cardinality({k \in 1 .. Len(args) : args[k] = p})

\* a call with p1 at positions 1 and 3 has returned after pops 1, 2, 3
PopsInArgumentOrderWitness ==
  /\ Returned /\ args = << "p1", "p2", "p1" >> /\ popLog = << 1, 2, 3 >>
  /\ Len(ports["p1"]) = Len(pre["p1"]) - 2

\* C5: with no source, sum returns 0 and mult returns 1, nothing is popped
\* and every port keeps its content.
EmptyFoldIsIdentity ==
  (args = << >>) =>
    /\ popLog = << >>
    /\ ports = ports0
    /\ \A j \in 1 .. Len(results) :
         results[j].ret = (IF results[j].op = "sum" THEN 0 ELSE 1)

\* sum() and then mult() have returned 0 and 1 beside a port holding values
EmptyFoldWitness ==
  /\ fpc = "idle" /\ args = << >>
  /\ results = << [op |-> "sum", ret |-> 0], [op |-> "mult", ret |-> 1] >>
  /\ ports["p1"] = << 3, 4 >>

\* C6: the call returned what the same fold returns on every rearrangement
\* of its argument list, from the ports as they were when the call began.
FoldOrderIndependent ==
  Returned =>
    \A q \in Perms(args) : helper(Last.op, pre, q, 1).ret = Last.ret

\* mult on ( p1, p2, p1 ) with p1 = [3,4] and p2 = [4] has returned 48
FoldOrderWitness ==
  /\ Returned /\ args = << "p1", "p2", "p1" >>
  /\ pre["p1"] = << 3, 4 >> /\ pre["p2"] = << 4 >>
  /\ Last = [op |-> "mult", ret |-> 48]

\* C9: after k calls on the same distinct sources every source passed has
\* lost its first k values and kept the rest in order, every other source is
\* unchanged, and the j-th call returned the fold of the j-th values.
FoldFrame ==
  (fpc = "idle" /\ Distinct(args)) =>
    LET k == Len(results)
    IN  /\ \A p \in Ports :
             IF \E m \in 1 .. Len(args) : args[m] = p
             THEN /\ Len(ports0[p]) >= k
                  /\ ports[p] = SubSeq(ports0[p], k + 1, Len(ports0[p]))
             ELSE ports[p] = ports0[p]
        /\ \A j \in 1 .. k :
             results[j].ret =
               RightFold(results[j].op,
                         [m \in 1 .. Len(args) |-> ports0[args[m]][j]])

\* two calls on ( p2 ) have returned beside an untouched p1
FoldFrameWitness ==
  /\ fpc = "idle" /\ args = << "p2" >> /\ Len(results) = 2
  /\ ports0["p2"] = << 3, 4 >> /\ ports["p2"] = << >>
  /\ ports0["p1"] = << 4, 0 >> /\ ports["p1"] = << 4, 0 >>

====
